---- MODULE Spec2Model ----
(***************************************************************************)
(* The scenario language of jessebrands/lore: BufferReader, Lexer and      *)
(* Parser of src/src/scenario/parser.ts and the Scene data model of        *)
(* src/src/scenario/scene.ts.                                              *)
(*                                                                         *)
(* A JavaScript string is modelled as a sequence of one-character strings; *)
(* the reader's cursor _pos is 0-based as in the source, so the character  *)
(* at cursor p is src[p + 1].                                              *)
(***************************************************************************)
EXTENDS Integers, Sequences, FiniteSets, TLC

VARIABLES
    source,       \* BufferReader._source
    pos,          \* BufferReader._pos
    last,         \* reader driver: the latest peek/read call and its outcome
    tokens,       \* lexer driver: the tokens nextToken has returned, in order
    lexState,     \* lexer driver: "run", "eof" (undefined returned) or the error thrown
    pc,           \* parser: the nextToken call the parser is about to make
    ctx,          \* parser: the caller of the running author(): "parse" or "scene"
    token,        \* parser: `let token`, what its latest nextToken call returned
    at,           \* parser: the value of pc when that call was made
    calls,        \* parser: the number of nextToken calls made
    scenes,       \* parse(): const scenes
    authors,      \* parse(): const authors
    curScene,     \* scene(): const scene
    sceneAuthors, \* scene(): const authors
    curBranch,    \* branch(): const branch
    curAuthor,    \* author(): const author
    objs,         \* the number of Author and Branch objects constructed
    result,       \* the scene list parse() returned (pc = "done")
    error,        \* the error parse() threw (pc = "error")
    added         \* scene driver: the authors passed to addAuthor, in call order

readerVars == <<source, pos, last>>
lexerVars == <<tokens, lexState>>
parserVars == <<pc, ctx, token, at, calls, scenes, authors, curScene, sceneAuthors,
                curBranch, curAuthor, objs, result, error>>
sceneVars == <<added>>
vars == <<readerVars, lexerVars, parserVars, sceneVars>>

----------------------------------------------------------------------------
(* Characters *)

HASH == "#"
QUOTE == "\""
BACKSLASH == "\\"
SPACE == " "
TAB == "\t"
CR == "\r"
LF == "\n"
OPEN == "{"
CLOSE == "}"

----------------------------------------------------------------------------
(* String.prototype.substring(start, end): both arguments are clamped to   *)
(* 0 .. length and swapped when start > end.                               *)

Clamp(n, len) == IF n < 0 THEN 0 ELSE IF n > len THEN len ELSE n

Substring(src, start, end) ==
    LET a == Clamp(start, Len(src))
        b == Clamp(end, Len(src))
        lo == IF a <= b THEN a ELSE b
        hi == IF a <= b THEN b ELSE a
    IN  SubSeq(src, lo + 1, hi)

----------------------------------------------------------------------------
(* BufferReader *)

\* The outcome of a reader call: the error thrown ("none" when it returned),
\* the string returned and the cursor after the call.
ReaderResult(err, val, p) == [err |-> err, val |-> val, pos |-> p]

\* peek(k) with the bounds test off by one: a peek up to the last character
\* of the buffer throws.
PeekStrict(src, p, k) ==
    IF p + k >= Len(src)
    THEN ReaderResult("RangeError", <<>>, p)
    ELSE ReaderResult("none", Substring(src, p, p + k), p)

\* peek(k) written as a read: the cursor moves past what was returned.
PeekAdvancing(src, p, k) ==
    IF p + k > Len(src)
    THEN ReaderResult("RangeError", <<>>, p)
    ELSE ReaderResult("none", Substring(src, p, p + k), p + k)

\* peek(k): throws RangeError when _pos + k > _source.length, otherwise
\* returns _source.substring(_pos, _pos + k); _pos is not assigned.
Peek(src, p, k) ==
    IF p + k > Len(src)
    THEN ReaderResult("RangeError", <<>>, p)
    ELSE ReaderResult("none", Substring(src, p, p + k), p)

\* read(k) advancing first and peeking afterwards: the slice after the
\* advance is returned.
ReadAfterAdvance(src, p, k) ==
    LET s == Peek(src, p + k, k)
    IN  ReaderResult(s.err, s.val, p + k)

\* read(k): `const s = this.peek(k)` runs peek's body at the old cursor and
\* yields a promise (rejected when peek threw); `this._pos += k` runs in
\* either case; `return s` settles read() the way peek settled.
Read(src, p, k) ==
    LET s == Peek(src, p, k)
    IN  ReaderResult(s.err, s.val, p + k)

IsEOF(src, p) == p >= Len(src)

----------------------------------------------------------------------------
(* Tokens *)

AUTHOR == <<"a", "u", "t", "h", "o", "r">>
SCENE == <<"s", "c", "e", "n", "e">>
BRANCH == <<"b", "r", "a", "n", "c", "h">>
JUMP == <<"j", "u", "m", "p">>

keywords == {AUTHOR, SCENE, BRANCH, JUMP}

Token(type, value) == [type |-> type, value |-> value]

\* The end-of-stream marker nextToken returns at end of input.
Undefined == Token("undefined", <<>>)

\* The outcome of a lexer method: the error thrown ("none" when it
\* returned), the token returned and the cursor after the call.
LexResult(err, tok, p) == [err |-> err, tok |-> tok, pos |-> p]

Throw(err, p) == LexResult(err, Undefined, p)

isWhitespace(c) == c = SPACE \/ c = TAB \/ c = LF \/ c = CR

----------------------------------------------------------------------------
(* Lexer *)

\* F applied to the value of v: v is evaluated once, before F's body.
With(v, F(_)) == CHOOSE out \in { F(x) : x \in {v} } : TRUE

\* What one iteration of a lexer loop leaves: the loop has ended with the
\* outcome res, or it goes on at cursor p with the text s accumulated.
Done(res) == [done |-> TRUE, res |-> res, pos |-> res.pos, s |-> <<>>]
Continue(p, s) == [done |-> FALSE, res |-> Throw("none", p), pos |-> p, s |-> s]

\* eatWhitespace(): reads spaces and tabs; returns the cursor it stops at.
RECURSIVE eatWhitespace(_, _)
eatWhitespace(src, p) ==
    IF IsEOF(src, p) THEN p
    ELSE IF Peek(src, p, 1).val = <<TAB>> \/ Peek(src, p, 1).val = <<SPACE>>
    THEN With(Read(src, p, 1).pos, LAMBDA p1 : eatWhitespace(src, p1))
    ELSE p

\* One iteration of the while loop of comment(), lines 101-107.
CommentStep(src, p, s) ==
    LET c == Peek(src, p, 1)
        r == Read(src, p, 1)
    IN  IF c.val = <<CR>> \/ c.val = <<LF>>
        THEN Done(LexResult("none", Token("COMMENT", s), p))
        ELSE Continue(r.pos, s \o r.val)

\* The loop of comment() without the isEOF() test of line 100: it ends at a
\* line end only, and peek() throws at the end of the input.
RECURSIVE CommentLoopUnguarded(_, _, _)
CommentLoopUnguarded(src, p, s) ==
    IF Peek(src, p, 1).err # "none" THEN Throw(Peek(src, p, 1).err, p)
    ELSE With(CommentStep(src, p, s), LAMBDA n :
              IF n.done THEN n.res ELSE CommentLoopUnguarded(src, n.pos, n.s))

RECURSIVE CommentLoop(_, _, _)
CommentLoop(src, p, s) ==
    IF IsEOF(src, p) THEN LexResult("none", Token("COMMENT", s), p)
    ELSE With(CommentStep(src, p, s), LAMBDA n :
              IF n.done THEN n.res ELSE CommentLoop(src, n.pos, n.s))

comment(src, p) ==
    With(Peek(src, p, 1), LAMBDA c :
    IF c.err # "none" THEN Throw(c.err, c.pos)
    ELSE IF c.val # <<HASH>> THEN Throw("SyntaxError", p)
    ELSE With(eatWhitespace(src, Read(src, p, 1).pos), LAMBDA p1 :
              CommentLoop(src, p1, <<>>)))

\* Lines 131-141 of keywordOrIdentifier(): the token for the run s.
KeywordOrIdentifierToken(s) ==
    Token(IF s \in keywords THEN "KEYWORD" ELSE "IDENTIFIER", s)

\* The loop of keywordOrIdentifier() ending the word at a brace, a quote
\* or a `#` as well as at whitespace.
KeywordStepAtDelimiter(src, p, s) ==
    LET c == Peek(src, p, 1)
        r == Read(src, p, 1)
    IN  IF isWhitespace(c.val[1]) \/ c.val[1] \in {OPEN, CLOSE, QUOTE, HASH}
        THEN Done(LexResult("none", KeywordOrIdentifierToken(s), p))
        ELSE Continue(r.pos, s \o r.val)

\* One iteration of the while loop of keywordOrIdentifier(), lines 122-128.
KeywordStep(src, p, s) ==
    LET c == Peek(src, p, 1)
        r == Read(src, p, 1)
    IN  IF isWhitespace(c.val[1])
        THEN Done(LexResult("none", KeywordOrIdentifierToken(s), p))
        ELSE Continue(r.pos, s \o r.val)

RECURSIVE KeywordLoop(_, _, _)
KeywordLoop(src, p, s) ==
    IF IsEOF(src, p) THEN LexResult("none", KeywordOrIdentifierToken(s), p)
    ELSE With(KeywordStep(src, p, s), LAMBDA n :
              IF n.done THEN n.res ELSE KeywordLoop(src, n.pos, n.s))

\* keywordOrIdentifier() looking ahead without reading: the token is
\* returned and the cursor stays at the start of the word.
keywordOrIdentifierPeeking(src, p) ==
    With(KeywordLoop(src, p, <<>>), LAMBDA r : LexResult(r.err, r.tok, p))

keywordOrIdentifier(src, p) == KeywordLoop(src, p, <<>>)

\* Lines 168-171 of stringLiteral(): on a backslash, the backslash is read
\* and the character after it is read and appended. The outcome is the
\* error of that read, the cursor and the value after it.
Escape(src, p, s, c) ==
    IF c # BACKSLASH THEN [err |-> "none", pos |-> p, s |-> s]
    ELSE With(Read(src, Read(src, p, 1).pos, 1), LAMBDA esc :
              [err |-> esc.err, pos |-> esc.pos, s |-> s \o esc.val])

\* One iteration of the while loop of stringLiteral(), lines 166-191.
\* After the escape of lines 168-171 the iteration goes on with c still
\* the backslash: the quote and carriage-return tests fail and the
\* unconditional `s += read()` of line 187 appends one more character.
StringStep(src, p, s) ==
    With(Peek(src, p, 1).val[1], LAMBDA c :
    With(Escape(src, p, s, c), LAMBDA e :
    IF e.err # "none" THEN Done(Throw(e.err, e.pos))
    ELSE With(Read(src, e.pos, 1), LAMBDA r :
         IF c = QUOTE THEN Done(LexResult("none", Token("STRING", e.s), r.pos))
         ELSE IF c = CR THEN Continue(r.pos, e.s)
         ELSE IF r.err # "none" THEN Done(Throw(r.err, r.pos))
         ELSE Continue(IF c = LF \/ c = SPACE
                       THEN eatWhitespace(src, r.pos) ELSE r.pos,
                       e.s \o r.val))))

RECURSIVE StringLoop(_, _, _)
StringLoop(src, p, s) ==
    IF IsEOF(src, p) THEN Throw("Error", p)
    ELSE With(StringStep(src, p, s), LAMBDA n :
              IF n.done THEN n.res ELSE StringLoop(src, n.pos, n.s))

stringLiteral(src, p) ==
    With(Peek(src, p, 1), LAMBDA c :
    IF c.err # "none" THEN Throw(c.err, c.pos)
    ELSE IF c.val # <<QUOTE>> THEN Throw("SyntaxError", p)
    ELSE StringLoop(src, Read(src, p, 1).pos, <<>>))

\* One iteration of the while loop of nextToken(), lines 198-229: a
\* comment and a whitespace character continue the loop.
NextTokenStep(src, p) ==
    With(Peek(src, p, 1).val[1], LAMBDA c :
    CASE c = HASH ->
           With(comment(src, p), LAMBDA r :
           IF r.err # "none" THEN Done(Throw(r.err, r.pos))
           ELSE Continue(r.pos, <<>>))
      [] c = QUOTE -> Done(stringLiteral(src, p))
      [] c = OPEN ->
           With(Read(src, p, 1), LAMBDA r :
           Done(LexResult("none", Token("OPEN_BRACE", r.val), r.pos)))
      [] c = CLOSE ->
           With(Read(src, p, 1), LAMBDA r :
           Done(LexResult("none", Token("CLOSE_BRACE", r.val), r.pos)))
      [] isWhitespace(c) -> Continue(Read(src, p, 1).pos, <<>>)
      [] OTHER -> Done(keywordOrIdentifier(src, p)))

RECURSIVE nextToken(_, _)
nextToken(src, p) ==
    IF IsEOF(src, p) THEN LexResult("none", Undefined, p)
    ELSE With(NextTokenStep(src, p), LAMBDA n :
              IF n.done THEN n.res ELSE nextToken(src, n.pos))

----------------------------------------------------------------------------
(* Bounds and inputs *)

MaxBuf == 3         \* reader driver: the longest buffer
MaxK == 3           \* reader driver: the largest k passed to peek and read
MaxPos == 5         \* reader driver: read(k) is not called with _pos + k beyond this
MaxLen == 4         \* lexer driver: the longest source text

SeqsUpTo(S, n) == UNION { [1..m -> S] : m \in 0..n }

ReaderSources == SeqsUpTo({"a", "b"}, MaxBuf)

LexAlphabet == {HASH, QUOTE, BACKSLASH, SPACE, TAB, CR, LF, OPEN, CLOSE, "a"}

MaxBody == 3        \* lexer driver: the longest body of a whole string literal
MaxTail == 2        \* lexer driver: the longest text after a word

\* Whole string literals: a body of escapes, whitespace and text in quotes.
StringAlphabet == {BACKSLASH, CR, LF, SPACE, TAB, "a"}

StringSources ==
    { <<QUOTE>> \o body \o <<QUOTE>> : body \in SeqsUpTo(StringAlphabet, MaxBody) }

\* The reserved words and `jum`, followed by text that ends or extends
\* the word.
Words == keywords \cup { <<"j", "u", "m">> }

TailAlphabet == {SPACE, OPEN, CLOSE, HASH, "p"}

WordSources == { w \o tail : w \in Words, tail \in SeqsUpTo(TailAlphabet, MaxTail) }

LexSources == SeqsUpTo(LexAlphabet, MaxLen) \cup StringSources \cup WordSources

----------------------------------------------------------------------------
(* The state after construction *)

NoCall == [op |-> "new", k |-> 0, err |-> "none", val |-> <<>>]
NoObject == [id |-> <<>>, obj |-> 0]
NoScene == [id |-> <<>>, _authors |-> <<>>, _branches |-> <<>>]
NoError == [kind |-> "none", origin |-> "", expected |-> "", got |-> ""]

\* new BufferReader(source): _pos = 0.
ReaderInit == pos = 0 /\ last = NoCall

LexerInit == tokens = <<>> /\ lexState = "run"

\* new Parser(lexer), about to run parse(): both lists empty.
ParserInit ==
    /\ pc = "parse" /\ ctx = "parse" /\ token = Undefined /\ at = "parse"
    /\ calls = 0 /\ scenes = <<>> /\ authors = <<>>
    /\ curScene = NoScene /\ sceneAuthors = <<>>
    /\ curBranch = NoObject /\ curAuthor = NoObject
    /\ objs = 0 /\ result = <<>> /\ error = NoError
    /\ added = <<>>

----------------------------------------------------------------------------
(* Reader driver: peek(k) and read(k) called in any order on one buffer *)

PeekCall(k) ==
    LET r == Peek(source, pos, k)
    IN  /\ pos' = r.pos
        /\ last' = [op |-> "peek", k |-> k, err |-> r.err, val |-> r.val]
        /\ UNCHANGED <<source, lexerVars, parserVars, sceneVars>>

ReadCall(k) ==
    LET r == Read(source, pos, k)
    IN  /\ pos + k <= MaxPos
        /\ pos' = r.pos
        /\ last' = [op |-> "read", k |-> k, err |-> r.err, val |-> r.val]
        /\ UNCHANGED <<source, lexerVars, parserVars, sceneVars>>

ReaderDriverInit == source \in ReaderSources /\ ReaderInit /\ LexerInit /\ ParserInit

ReaderNext == \E k \in 0..MaxK : PeekCall(k) \/ ReadCall(k)

ReaderSpec == ReaderDriverInit /\ [][ReaderNext]_vars

----------------------------------------------------------------------------
(* Lexer driver: nextToken() called until it returns undefined or throws *)

NextTokenCall ==
    \E r \in {nextToken(source, pos)} :
        /\ lexState = "run"
        /\ pos' = r.pos
        /\ tokens' = IF r.err = "none" /\ r.tok # Undefined
                     THEN Append(tokens, r.tok) ELSE tokens
        /\ lexState' = IF r.err # "none" THEN r.err
                       ELSE IF r.tok = Undefined THEN "eof" ELSE "run"
        /\ UNCHANGED <<source, last, parserVars, sceneVars>>

LexerDriverInit == source \in LexSources /\ ReaderInit /\ LexerInit /\ ParserInit

LexNext == NextTokenCall

LexSpec == LexerDriverInit /\ [][LexNext]_vars

----------------------------------------------------------------------------
(* Scene (src/src/scenario/scene.ts). An Author or Branch object is its id  *)
(* and obj, the number of its construction, which tells two objects with   *)
(* the same id apart. _branches, a Map, is the sequence of its entries in  *)
(* insertion order.                                                        *)

NewObject(id, n) == [id |-> id, obj |-> n]

NewScene(id) == [id |-> id, _authors |-> <<>>, _branches |-> <<>>]

\* A set(k, v) that leaves the entry of an existing key as it is.
MapSetKeepFirst(m, k, v) ==
    IF \E i \in 1..Len(m) : m[i][1] = k
    THEN m
    ELSE Append(m, <<k, v>>)

\* Map.prototype.set(k, v): replaces the value of an existing key in place,
\* appends a new entry otherwise.
MapSet(m, k, v) ==
    IF \E i \in 1..Len(m) : m[i][1] = k
    THEN [i \in 1..Len(m) |-> IF m[i][1] = k THEN <<k, v>> ELSE m[i]]
    ELSE Append(m, <<k, v>>)

addBranch(s, b) == [s EXCEPT !._branches = MapSet(s._branches, b.id, b)]

\* addAuthor replacing the author found by the lookup of lines 31-33
\* with the new one, the way addBranch replaces a branch.
addAuthorReplacing(s, a) ==
    IF \E i \in 1..Len(s._authors) : s._authors[i].id = a.id
    THEN [s EXCEPT !._authors = [i \in 1..Len(s._authors) |->
                       IF s._authors[i].id = a.id THEN a ELSE s._authors[i]]]
    ELSE [s EXCEPT !._authors = Append(s._authors, a)]

\* addAuthor without the lookup of lines 31-33.
addAuthorUnchecked(s, a) == [s EXCEPT !._authors = Append(s._authors, a)]

addAuthor(s, a) ==
    IF \E i \in 1..Len(s._authors) : s._authors[i].id = a.id
    THEN s
    ELSE [s EXCEPT !._authors = Append(s._authors, a)]

\* as.forEach(a => s.addAuthor(a))
RECURSIVE addAuthors(_, _)
addAuthors(s, as) ==
    IF as = <<>> THEN s
    ELSE addAuthors(addAuthor(s, Head(as)), Tail(as))

----------------------------------------------------------------------------
(* Scene driver: addAuthor and addBranch called in any order on one Scene, *)
(* each with a newly constructed Author or Branch.                         *)

MaxAdds == 4        \* scene driver: the number of addAuthor/addBranch calls

SceneIds == { <<"a">>, <<"b">>, <<"c">> }

AddAuthorCall(id) ==
    /\ objs < MaxAdds
    /\ objs' = objs + 1
    /\ curScene' = addAuthor(curScene, NewObject(id, objs + 1))
    /\ added' = Append(added, NewObject(id, objs + 1))
    /\ UNCHANGED <<readerVars, lexerVars, pc, ctx, token, at, calls, scenes, authors,
                   sceneAuthors, curBranch, curAuthor, result, error>>

AddBranchCall(id) ==
    /\ objs < MaxAdds
    /\ objs' = objs + 1
    /\ curScene' = addBranch(curScene, NewObject(id, objs + 1))
    /\ UNCHANGED <<readerVars, lexerVars, sceneVars, pc, ctx, token, at, calls, scenes,
                   authors, sceneAuthors, curBranch, curAuthor, result, error>>

\* new Scene("s")
SceneDriverInit ==
    /\ source = <<>> /\ ReaderInit /\ LexerInit
    /\ pc = "scene" /\ ctx = "parse" /\ token = Undefined /\ at = "parse"
    /\ calls = 0 /\ scenes = <<>> /\ authors = <<>>
    /\ curScene = NewScene(<<"s">>) /\ sceneAuthors = <<>>
    /\ curBranch = NoObject /\ curAuthor = NoObject
    /\ objs = 0 /\ result = <<>> /\ error = NoError
    /\ added = <<>>

SceneNext == \E id \in SceneIds : AddAuthorCall(id) \/ AddBranchCall(id)

SceneSpec == SceneDriverInit /\ [][SceneNext]_vars

\* parse() without line 346: the scenes are returned as scene() left them.
BroadcastSkipped(as, ss) == ss

\* as.forEach(a => ss.forEach(s => s.addAuthor(a))): every scene of ss
\* receives the authors of as in order.
Broadcast(as, ss) == [i \in 1..Len(ss) |-> addAuthors(ss[i], as)]

----------------------------------------------------------------------------
(* Parser. One action is one nextToken() call and what the method does     *)
(* with the token up to its next call. A thrown error is caught nowhere:   *)
(* it ends parse() (pc = "error").                                         *)

\* An error is its kind (the constructor), its origin and what its message
\* says was expected and found.
SyntaxError(expected, got) ==
    [kind |-> "SyntaxError", origin |-> "Parser", expected |-> expected, got |-> got]

\* `new Error(...)` of parse(), lines 336 and 342: the message names what
\* was found.
GenericError(got) ==
    [kind |-> "Error", origin |-> "Parser", expected |-> "author|scene", got |-> got]

\* An error thrown inside nextToken() propagates unchanged.
LexerError(kind) == [kind |-> kind, origin |-> "Lexer", expected |-> "", got |-> ""]

\* `new Error(...)` where lines 295 and 311 throw a SyntaxError.
UnexpectedEOFGeneric == GenericError("EOF")

\* "Expected CLOSE_BRACE but reached EOF", lines 295 and 311.
UnexpectedEOF == SyntaxError("CLOSE_BRACE", "EOF")

\* A test of the token type alone, without the switch on token.value.
IsAnyKeyword(tk, word) == tk.type = "KEYWORD"

\* ${token?.type}
TypeOf(tk) == tk.type

\* token = await this._lexer.nextToken()
Called(r) ==
    /\ pos' = r.pos
    /\ token' = r.tok
    /\ at' = pc
    /\ calls' = calls + 1
    /\ UNCHANGED <<source, last, lexerVars, sceneVars>>

Raise(e) == pc' = "error" /\ error' = e

IsKeyword(tk, word) == tk.type = "KEYWORD" /\ tk.value = word

\* parse(), lines 319-347: one iteration of the top-level loop, or the
\* broadcast and return when the stream has ended.
ParseLoop ==
    /\ pc = "parse"
    /\ \E r \in {nextToken(source, pos)} :
           /\ Called(r)
           /\ IF r.err # "none" THEN
                   /\ Raise(LexerError(r.err))
                   /\ UNCHANGED <<ctx, scenes, result>>
              ELSE IF r.tok = Undefined THEN
                   /\ scenes' = Broadcast(authors, scenes)
                   /\ result' = scenes'
                   /\ pc' = "done"
                   /\ UNCHANGED <<ctx, error>>
              ELSE IF IsKeyword(r.tok, AUTHOR) THEN
                   /\ pc' = "author_id"
                   /\ ctx' = "parse"
                   /\ UNCHANGED <<scenes, result, error>>
              ELSE IF IsKeyword(r.tok, SCENE) THEN
                   /\ pc' = "scene_id"
                   /\ UNCHANGED <<ctx, scenes, result, error>>
              ELSE /\ Raise(GenericError(IF r.tok.type = "KEYWORD"
                                         THEN "keyword" ELSE TypeOf(r.tok)))
                   /\ UNCHANGED <<ctx, scenes, result>>
    /\ UNCHANGED <<authors, curScene, sceneAuthors, curBranch, curAuthor, objs>>

\* author(), lines 299-304.
AuthorId ==
    /\ pc = "author_id"
    /\ \E r \in {nextToken(source, pos)} :
           /\ Called(r)
           /\ IF r.err # "none" THEN
                   /\ Raise(LexerError(r.err))
                   /\ UNCHANGED <<curAuthor, objs>>
              ELSE IF r.tok.type # "IDENTIFIER" THEN
                   /\ Raise(SyntaxError("IDENTIFIER", TypeOf(r.tok)))
                   /\ UNCHANGED <<curAuthor, objs>>
              ELSE /\ curAuthor' = NewObject(r.tok.value, objs + 1)
                   /\ objs' = objs + 1
                   /\ pc' = "author_body"
                   /\ UNCHANGED error
    /\ UNCHANGED <<ctx, scenes, authors, curScene, sceneAuthors, curBranch, result>>

\* author(), lines 305-311, and the caller's push of the returned author
\* (line 325 in parse(), line 279 in scene()).
AuthorLoop ==
    /\ pc = "author_body"
    /\ \E r \in {nextToken(source, pos)} :
           /\ Called(r)
           /\ IF r.err # "none" THEN
                   /\ Raise(LexerError(r.err))
                   /\ UNCHANGED <<authors, sceneAuthors, curAuthor>>
              ELSE IF r.tok = Undefined THEN
                   /\ Raise(UnexpectedEOF)
                   /\ UNCHANGED <<authors, sceneAuthors, curAuthor>>
              ELSE IF r.tok.type = "CLOSE_BRACE" THEN
                   /\ authors' = IF ctx = "parse"
                                 THEN Append(authors, curAuthor) ELSE authors
                   /\ sceneAuthors' = IF ctx = "scene"
                                      THEN Append(sceneAuthors, curAuthor)
                                      ELSE sceneAuthors
                   /\ pc' = IF ctx = "parse" THEN "parse" ELSE "scene_body"
                   /\ curAuthor' = NoObject
                   /\ UNCHANGED error
              ELSE UNCHANGED <<pc, error, authors, sceneAuthors, curAuthor>>
    /\ UNCHANGED <<ctx, scenes, curScene, curBranch, objs, result>>

\* scene(), lines 260-267.
SceneId ==
    /\ pc = "scene_id"
    /\ \E r \in {nextToken(source, pos)} :
           /\ Called(r)
           /\ sceneAuthors' = <<>>
           /\ IF r.err # "none" THEN
                   /\ Raise(LexerError(r.err))
                   /\ UNCHANGED curScene
              ELSE IF r.tok.type # "IDENTIFIER" THEN
                   /\ Raise(SyntaxError("IDENTIFIER", TypeOf(r.tok)))
                   /\ UNCHANGED curScene
              ELSE /\ curScene' = NewScene(r.tok.value)
                   /\ pc' = "scene_brace"
                   /\ UNCHANGED error
    /\ UNCHANGED <<ctx, scenes, authors, curBranch, curAuthor, objs, result>>

\* scene(), lines 269-272.
SceneBrace ==
    /\ pc = "scene_brace"
    /\ \E r \in {nextToken(source, pos)} :
           /\ Called(r)
           /\ IF r.err # "none" THEN Raise(LexerError(r.err))
              ELSE IF r.tok.type # "OPEN_BRACE"
              THEN Raise(SyntaxError("OPEN_BRACE", TypeOf(r.tok)))
              ELSE pc' = "scene_body" /\ UNCHANGED error
    /\ UNCHANGED <<ctx, scenes, authors, curScene, sceneAuthors, curBranch,
                   curAuthor, objs, result>>

\* The loop of scene() throwing on a token it does not expect, where lines
\* 274-294 let the token fall through to the next iteration.
SceneLoopStrict ==
    /\ pc = "scene_body"
    /\ \E r \in {nextToken(source, pos)} :
           /\ Called(r)
           /\ IF r.err # "none" THEN
                   /\ Raise(LexerError(r.err))
                   /\ UNCHANGED <<ctx, scenes, curScene, sceneAuthors>>
              ELSE IF r.tok = Undefined THEN
                   /\ Raise(UnexpectedEOF)
                   /\ UNCHANGED <<ctx, scenes, curScene, sceneAuthors>>
              ELSE IF IsKeyword(r.tok, AUTHOR) THEN
                   /\ pc' = "author_id"
                   /\ ctx' = "scene"
                   /\ UNCHANGED <<error, scenes, curScene, sceneAuthors>>
              ELSE IF IsKeyword(r.tok, BRANCH) THEN
                   /\ pc' = "branch_id"
                   /\ UNCHANGED <<error, ctx, scenes, curScene, sceneAuthors>>
              ELSE IF r.tok.type = "CLOSE_BRACE" THEN
                   /\ scenes' = Append(scenes, addAuthors(curScene, sceneAuthors))
                   /\ curScene' = NoScene
                   /\ sceneAuthors' = <<>>
                   /\ pc' = "parse"
                   /\ UNCHANGED <<error, ctx>>
              ELSE /\ Raise(SyntaxError("CLOSE_BRACE", TypeOf(r.tok)))
                   /\ UNCHANGED <<ctx, scenes, curScene, sceneAuthors>>
    /\ UNCHANGED <<authors, curBranch, curAuthor, objs, result>>

\* scene(), lines 274-295, and parse()'s push of the returned scene
\* (line 331).
SceneLoop ==
    /\ pc = "scene_body"
    /\ \E r \in {nextToken(source, pos)} :
           /\ Called(r)
           /\ IF r.err # "none" THEN
                   /\ Raise(LexerError(r.err))
                   /\ UNCHANGED <<ctx, scenes, curScene, sceneAuthors>>
              ELSE IF r.tok = Undefined THEN
                   /\ Raise(UnexpectedEOF)
                   /\ UNCHANGED <<ctx, scenes, curScene, sceneAuthors>>
              ELSE IF IsKeyword(r.tok, AUTHOR) THEN
                   /\ pc' = "author_id"
                   /\ ctx' = "scene"
                   /\ UNCHANGED <<error, scenes, curScene, sceneAuthors>>
              ELSE IF IsKeyword(r.tok, BRANCH) THEN
                   /\ pc' = "branch_id"
                   /\ UNCHANGED <<error, ctx, scenes, curScene, sceneAuthors>>
              ELSE IF r.tok.type = "CLOSE_BRACE" THEN
                   /\ scenes' = Append(scenes, addAuthors(curScene, sceneAuthors))
                   /\ curScene' = NoScene
                   /\ sceneAuthors' = <<>>
                   /\ pc' = "parse"
                   /\ UNCHANGED <<error, ctx>>
              ELSE UNCHANGED <<pc, error, ctx, scenes, curScene, sceneAuthors>>
    /\ UNCHANGED <<authors, curBranch, curAuthor, objs, result>>

\* branch() calling scene.addBranch as soon as the Branch is constructed,
\* where line 253 calls it at the CLOSE_BRACE.
BranchIdRegistering ==
    /\ pc = "branch_id"
    /\ \E r \in {nextToken(source, pos)} :
           /\ Called(r)
           /\ IF r.err # "none" THEN
                   /\ Raise(LexerError(r.err))
                   /\ UNCHANGED <<curScene, curBranch, objs>>
              ELSE IF r.tok.type # "IDENTIFIER" THEN
                   /\ Raise(SyntaxError("IDENTIFIER", TypeOf(r.tok)))
                   /\ UNCHANGED <<curScene, curBranch, objs>>
              ELSE /\ curBranch' = NewObject(r.tok.value, objs + 1)
                   /\ curScene' = addBranch(curScene, curBranch')
                   /\ objs' = objs + 1
                   /\ pc' = "branch_body"
                   /\ UNCHANGED error
    /\ UNCHANGED <<ctx, scenes, authors, sceneAuthors, curAuthor, result>>

\* branch(), lines 244-249.
BranchId ==
    /\ pc = "branch_id"
    /\ \E r \in {nextToken(source, pos)} :
           /\ Called(r)
           /\ IF r.err # "none" THEN
                   /\ Raise(LexerError(r.err))
                   /\ UNCHANGED <<curBranch, objs>>
              ELSE IF r.tok.type # "IDENTIFIER" THEN
                   /\ Raise(SyntaxError("IDENTIFIER", TypeOf(r.tok)))
                   /\ UNCHANGED <<curBranch, objs>>
              ELSE /\ curBranch' = NewObject(r.tok.value, objs + 1)
                   /\ objs' = objs + 1
                   /\ pc' = "branch_body"
                   /\ UNCHANGED error
    /\ UNCHANGED <<ctx, scenes, authors, curScene, sceneAuthors, curAuthor, result>>

\* branch(), lines 251-257: at the end of the stream the loop ends and the
\* method returns without a throw and without addBranch.
BranchLoop ==
    /\ pc = "branch_body"
    /\ \E r \in {nextToken(source, pos)} :
           /\ Called(r)
           /\ IF r.err # "none" THEN
                   /\ Raise(LexerError(r.err))
                   /\ UNCHANGED <<curScene, curBranch>>
              ELSE IF r.tok = Undefined THEN
                   /\ pc' = "scene_body"
                   /\ curBranch' = NoObject
                   /\ UNCHANGED <<error, curScene>>
              ELSE IF r.tok.type = "CLOSE_BRACE" THEN
                   /\ curScene' = addBranch(curScene, curBranch)
                   /\ curBranch' = NoObject
                   /\ pc' = "scene_body"
                   /\ UNCHANGED error
              ELSE UNCHANGED <<pc, error, curScene, curBranch>>
    /\ UNCHANGED <<ctx, scenes, authors, sceneAuthors, curAuthor, objs, result>>

----------------------------------------------------------------------------
(* Parser inputs: texts of up to MaxFragments fragments, each a word or a  *)
(* short block followed by a space, and three whole documents.             *)

MaxFragments == 4

Sp == <<SPACE>>

RECURSIVE Text(_)
Text(parts) == IF parts = <<>> THEN <<>> ELSE Head(parts) \o Text(Tail(parts))

Fragments ==
    { Text(<<AUTHOR, Sp>>), Text(<<SCENE, Sp>>), Text(<<BRANCH, Sp>>),
      Text(<<<<"a">>, Sp>>), Text(<<<<CLOSE>>, Sp>>), Text(<<<<QUOTE>>, Sp>>),
      Text(<<SCENE, Sp, <<"a">>, Sp, <<OPEN>>, Sp>>),
      Text(<<AUTHOR, Sp, <<"a">>, Sp, <<CLOSE>>, Sp>>),
      Text(<<AUTHOR, Sp, <<"b">>, Sp, <<CLOSE>>, Sp>>),
      Text(<<BRANCH, Sp, <<"b">>, Sp, <<CLOSE>>, Sp>>) }

\* author a {} scene s { author a { branch b { } } }
NestedDocument ==
    Text(<<AUTHOR, Sp, <<"a">>, Sp, <<OPEN, CLOSE>>, Sp,
           SCENE, Sp, <<"s">>, Sp, <<OPEN>>, Sp,
           AUTHOR, Sp, <<"a">>, Sp, <<OPEN>>, Sp,
           BRANCH, Sp, <<"b">>, Sp, <<OPEN>>, Sp, <<CLOSE>>, Sp,
           <<CLOSE>>, Sp, <<CLOSE>>>>)

\* author a {} scene s { author a { } branch b { } }
FlatDocument ==
    Text(<<AUTHOR, Sp, <<"a">>, Sp, <<OPEN, CLOSE>>, Sp,
           SCENE, Sp, <<"s">>, Sp, <<OPEN>>, Sp,
           AUTHOR, Sp, <<"a">>, Sp, <<OPEN>>, Sp, <<CLOSE>>, Sp,
           BRANCH, Sp, <<"b">>, Sp, <<OPEN>>, Sp, <<CLOSE>>, Sp,
           <<CLOSE>>>>)

\* scene s { jump { "t" x branch b { jump "t" scene } } author c { }
NoisyDocument ==
    Text(<<SCENE, Sp, <<"s">>, Sp, <<OPEN>>, Sp, JUMP, Sp, <<OPEN>>, Sp,
           <<QUOTE, "t", QUOTE>>, Sp, <<"x">>, Sp,
           BRANCH, Sp, <<"b">>, Sp, <<OPEN>>, Sp, JUMP, Sp,
           <<QUOTE, "t", QUOTE>>, Sp, SCENE, Sp, <<CLOSE>>, Sp, <<CLOSE>>, Sp,
           AUTHOR, Sp, <<"c">>, Sp, <<OPEN>>, Sp, <<CLOSE>>>>)

ParserSources ==
    { Text(fs) : fs \in SeqsUpTo(Fragments, MaxFragments) }
        \cup {NestedDocument, FlatDocument, NoisyDocument}

Init == source \in ParserSources /\ ReaderInit /\ LexerInit /\ ParserInit

Next ==
    \/ ParseLoop
    \/ AuthorId
    \/ AuthorLoop
    \/ SceneId
    \/ SceneBrace
    \/ SceneLoop
    \/ BranchId
    \/ BranchLoop

Spec == Init /\ [][Next]_vars

\* parse() is one async function awaited by its caller: every await in it
\* is on a promise the lexer settles, so a step that can be taken is taken.
MaxFair == 3        \* the number of fragments of a text parsed under fairness

FairSources ==
    { Text(fs) : fs \in SeqsUpTo(Fragments, MaxFair) }
        \cup {NestedDocument, FlatDocument, NoisyDocument}

FairInit == source \in FairSources /\ ReaderInit /\ LexerInit /\ ParserInit

FairSpec == FairInit /\ [][Next]_vars /\ WF_vars(Next)

----------------------------------------------------------------------------
(* Claims about parse() as a whole *)

Final == pc \in {"done", "error"}

AuthorIds(s) == [i \in 1..Len(s._authors) |-> s._authors[i].id]

BranchIds(s) == [i \in 1..Len(s._branches) |-> s._branches[i][1]]

\* parse() returned exactly one scene s holding exactly one author a and
\* exactly one branch b.
OneSceneOneAuthorOneBranch ==
    /\ pc = "done"
    /\ Len(result) = 1
    /\ result[1].id = <<"s">>
    /\ AuthorIds(result[1]) = << <<"a">> >>
    /\ BranchIds(result[1]) = << <<"b">> >>

\* C1 as stated: parsing `author a {} scene s { author a { branch b { } } }`
\* succeeds and returns one scene s with one author a and one branch b.
C1_NestedDocumentParses ==
    (source = NestedDocument /\ Final) => OneSceneOneAuthorOneBranch

\* C1 amended: on that text author() ends at the first `}`, the one written
\* for the branch, so `branch b` is never parsed, the next `}` ends the
\* scene and the last `}` reaches parse(), which throws; the same document
\* with the author closed before the branch,
\* `author a {} scene s { author a { } branch b { } }`, parses to one scene
\* s with one author a (the top-level a is not added again) and one branch b.
C1_FlatDocumentParses ==
    /\ (source = FlatDocument /\ Final) => OneSceneOneAuthorOneBranch
    /\ (source = NestedDocument /\ Final) =>
           /\ pc = "error"
           /\ error = GenericError("CLOSE_BRACE")
           /\ result = <<>>
           /\ Len(scenes) = 1 /\ BranchIds(scenes[1]) = <<>>

C1_Witness ==
    /\ source = FlatDocument
    /\ pc = "done"
    /\ Len(authors) = 1
    /\ Len(result) = 1 /\ Len(result[1]._authors) = 1

\* C2: when parse() returns, every scene of the returned list holds an
\* author with the id of every top-level author, whether the author was
\* declared before or after the scene.
C2_TopLevelAuthorsBroadcast ==
    pc = "done" =>
        \A i \in 1..Len(authors), j \in 1..Len(result) :
            \E k \in 1..Len(result[j]._authors) :
                result[j]._authors[k].id = authors[i].id

\* A scene with its own author a, and a top-level author b declared after it.
C2_Witness ==
    /\ pc = "done"
    /\ Len(result) = 1 /\ Len(authors) = 1
    /\ AuthorIds(result[1]) = << <<"a">>, <<"b">> >>
    /\ authors[1].id = <<"b">>
    /\ result[1]._authors[1].obj < authors[1].obj

----------------------------------------------------------------------------
(* Claims about the Lexer *)

\* A string literal is about to be read: the next nextToken() call finds
\* a quote at the cursor.
AtStringLiteral == lexState = "run" /\ ~IsEOF(source, pos) /\ source[pos + 1] = QUOTE

\* The string literal as C3 and C4 describe it: a backslash and the
\* character after it contribute that character and nothing else, and the
\* next iteration looks at the character after the pair.
ClaimedStringStep(src, p, s) ==
    IF Peek(src, p, 1).val # <<BACKSLASH>> THEN StringStep(src, p, s)
    ELSE With(Escape(src, p, s, BACKSLASH), LAMBDA e :
              IF e.err # "none" THEN Done(Throw(e.err, e.pos))
              ELSE Continue(e.pos, e.s))

RECURSIVE ClaimedStringLoop(_, _, _)
ClaimedStringLoop(src, p, s) ==
    IF IsEOF(src, p) THEN Throw("Error", p)
    ELSE With(ClaimedStringStep(src, p, s), LAMBDA n :
              IF n.done THEN n.res ELSE ClaimedStringLoop(src, n.pos, n.s))

\* C3: a string literal ends at its first unescaped quote and every
\* backslash pair contributes exactly the escaped character, whatever
\* follows the pair: the call returns the STRING token of the literal so
\* read and leaves the cursor after its closing quote.
C3_EscapeContributesOneCharacter ==
    [][ AtStringLiteral =>
          LET lit == ClaimedStringLoop(source, pos + 1, <<>>)
          IN  lit.err = "none" =>
                /\ lexState' = "run"
                /\ tokens' = Append(tokens, lit.tok)
                /\ pos' = lit.pos ]_vars

\* C4: when the input ends before the unescaped closing quote of a string
\* literal, also right after a backslash, nextToken() throws the
\* unterminated-literal error (`new Error("End of source")`) and returns no
\* token.
C4_UnterminatedLiteralError ==
    [][ AtStringLiteral =>
          LET lit == ClaimedStringLoop(source, pos + 1, <<>>)
          IN  lit.err # "none" => (lexState' = "Error" /\ tokens' = tokens) ]_vars

\* The source text without its comments: outside a string literal, a `#`
\* and the text up to the end of the line are left out.
RECURSIVE StripComments(_, _, _)
StripComments(src, i, mode) ==
    IF i > Len(src) THEN <<>>
    ELSE LET c == src[i]
         IN  CASE mode = "comment" ->
                    IF c = CR \/ c = LF
                    THEN <<c>> \o StripComments(src, i + 1, "code")
                    ELSE StripComments(src, i + 1, "comment")
               [] mode = "string" ->
                    IF c = BACKSLASH /\ i < Len(src)
                    THEN <<c, src[i + 1]>> \o StripComments(src, i + 2, "string")
                    ELSE <<c>> \o StripComments(src, i + 1,
                                      IF c = QUOTE THEN "code" ELSE "string")
               [] OTHER ->
                    IF c = HASH THEN StripComments(src, i + 1, "comment")
                    ELSE <<c>> \o StripComments(src, i + 1,
                                      IF c = QUOTE THEN "string" ELSE "code")

\* The tokens repeated nextToken() calls return on src from cursor p on,
\* and how the calls end: "eof" or the error thrown.
RECURSIVE TokensOf(_, _, _)
TokensOf(src, p, toks) ==
    With(nextToken(src, p), LAMBDA r :
         IF r.err # "none" THEN <<toks, r.err>>
         ELSE IF r.tok = Undefined THEN <<toks, "eof">>
         ELSE TokensOf(src, r.pos, Append(toks, r.tok)))

\* C5: the tokens of a source are the tokens of the source without its
\* comments, a `#` starting a comment wherever it stands outside a string
\* literal.
C5_CommentsInvisible ==
    lexState # "run" =>
        <<tokens, lexState>> = TokensOf(StripComments(source, 1, "code"), 0, <<>>)

\* The source holds whitespace and comments only.
OnlyWhitespaceAndComments ==
    LET text == StripComments(source, 1, "code")
    IN  \A i \in 1..Len(text) : isWhitespace(text[i])

\* C6: on a source of whitespace and comments only, nextToken() returns
\* undefined on its first call: no token is returned and nothing is thrown.
C6_WhitespaceAndCommentsEndOfStream ==
    OnlyWhitespaceAndComments =>
        /\ tokens = <<>>
        /\ lexState \in {"run", "eof"}
        /\ lexState = "run" => pos = 0
        /\ lexState = "eof" => pos = Len(source)

\* A comment with text, a line end, and a `#` as the last character.
C6_Witness ==
    /\ lexState = "eof"
    /\ OnlyWhitespaceAndComments
    /\ Len(source) >= 3
    /\ source[1] = HASH /\ source[2] = "a"
    /\ source[Len(source)] = HASH

----------------------------------------------------------------------------
(* Claims about the Parser's errors *)

\* The latest nextToken() call threw (an unterminated string literal, a
\* read past the end of the buffer).
LexerThrew == pc = "error" /\ error.origin = "Lexer"

\* The latest nextToken() call was made at one of the positions S and
\* returned undefined: the stream ended there.
EndOfStreamAt(S) == calls > 0 /\ at \in S /\ token = Undefined /\ ~LexerThrew

\* The SyntaxError of an unexpected end of input: the message reports EOF
\* ("... but reached EOF") or the missing token ("got undefined").
IsUnexpectedEOFError(e) == e.kind = "SyntaxError" /\ e.got \in {"EOF", "undefined"}

\* C7: when the stream ends inside an author, scene or branch block
\* (after its keyword and identifier, before its CLOSE_BRACE), parse()
\* throws the unexpected-EOF SyntaxError and returns no scene list. In a
\* branch, branch() returns without a throw and the scene() around it
\* throws on its next call.
C7_EndOfStreamInBlock ==
    /\ [](EndOfStreamAt({"author_body", "scene_brace", "scene_body"}) =>
            (pc = "error" /\ IsUnexpectedEOFError(error) /\ result = <<>>))
    /\ [](EndOfStreamAt({"branch_body"}) => (pc = "scene_body" /\ result = <<>>))
    /\ [][EndOfStreamAt({"branch_body"}) =>
            (pc' = "error" /\ IsUnexpectedEOFError(error') /\ result' = <<>>)]_vars

\* The stream ended inside a branch of a scene.
C7_Witness == EndOfStreamAt({"branch_body"}) /\ curScene.id = <<"a">>

\* C8: at top level every token other than KEYWORD author and KEYWORD
\* scene makes parse() throw; once parse() has thrown, no further token is
\* requested and no scene list is returned, whatever scenes were complete.
C8_FirstErrorEndsParse ==
    /\ []((calls > 0 /\ at = "parse" /\ ~LexerThrew /\ token # Undefined
            /\ token \notin {Token("KEYWORD", AUTHOR), Token("KEYWORD", SCENE)})
           => pc = "error")
    /\ [](pc = "error" => (result = <<>> /\ error.kind # "none"))
    /\ [][pc = "error" => (calls' = calls /\ result' = result /\ pc' = pc)]_vars

\* `branch` at top level after a complete scene.
C8_Witness ==
    /\ pc = "error" /\ at = "parse"
    /\ token = Token("KEYWORD", BRANCH)
    /\ Len(scenes) = 1
    /\ result = <<>>

\* C9: every structural violation parse() reports is a SyntaxError.
C9_StructuralViolationsAreSyntaxErrors ==
    (pc = "error" /\ ~LexerThrew) => error.kind = "SyntaxError"

----------------------------------------------------------------------------
(* Claims about the BufferReader *)

\* C10: peek(k) leaves the cursor where it was, whether it returns or
\* throws, and a peek(k) right after a peek(k) has the same outcome.
C10_PeekLeavesCursor ==
    [][\A k \in 0..MaxK :
          PeekCall(k) =>
              /\ pos' = pos
              /\ (last.op = "peek" /\ last.k = k) =>
                     (last'.val = last.val /\ last'.err = last.err)]_vars

\* peek(3) threw after a read had moved the cursor.
C10_Witness ==
    /\ last.op = "peek" /\ last.k = 3 /\ last.err = "RangeError"
    /\ pos = 1 /\ Len(source) = 3

\* C11: read(k) with _pos + k within the buffer returns the k characters
\* at the cursor, source[_pos] .. source[_pos + k - 1], and leaves the
\* cursor at _pos + k.
C11_ReadReturnsCurrentSlice ==
    [][\A k \in 0..MaxK :
          (ReadCall(k) /\ pos + k <= Len(source)) =>
              /\ last'.err = "none"
              /\ last'.val = [i \in 1..k |-> source[pos + i]]
              /\ pos' = pos + k]_vars

\* read(1) then read(2) on `bab`: the second call returned `ab`.
C11_Witness ==
    /\ source = <<"b", "a", "b">>
    /\ last.op = "read" /\ last.k = 2 /\ last.err = "none"
    /\ last.val = <<"a", "b">>
    /\ pos = 3

\* C12: peek(k) throws RangeError exactly when _pos + k exceeds the buffer
\* length, whatever the cursor, and returns k characters otherwise.
C12_PeekFailsExactlyPastEnd ==
    [][\A k \in 0..MaxK :
          PeekCall(k) =>
              /\ last'.err = "RangeError" <=> pos + k > Len(source)
              /\ last'.err = "none" <=> pos + k <= Len(source)
              /\ last'.err = "none" => Len(last'.val) = k]_vars

\* peek(k) with k larger than the whole buffer, on a fresh reader.
C12_Witness ==
    /\ Len(source) = 2
    /\ pos = 0
    /\ last.op = "peek" /\ last.k = 3 /\ last.err = "RangeError"

\* C20: the cursor stays within 0 .. buffer length after every peek and
\* read, a read that throws included.
C20_CursorWithinBuffer == pos \in 0..Len(source)

----------------------------------------------------------------------------
(* Claims about the Scene *)

\* Of the authors as, in order, the first one with each id.
RECURSIVE FirstOfEachId(_)
FirstOfEachId(as) ==
    IF as = <<>> THEN <<>>
    ELSE LET front == SubSeq(as, 1, Len(as) - 1)
             x == as[Len(as)]
         IN  IF \E i \in 1..Len(front) : front[i].id = x.id
             THEN FirstOfEachId(front)
             ELSE Append(FirstOfEachId(front), x)

\* C13: after any addAuthor calls the scene holds, for each id added, the
\* first author added with that id and no other: a call with an id already
\* present changes nothing.
C13_AddAuthorIdempotentPerId == curScene._authors = FirstOfEachId(added)

\* Authors a, b, a were added: the scene holds the first a, and b.
C13_Witness ==
    /\ AuthorIds(curScene) = << <<"a">>, <<"b">> >>
    /\ Len(added) = 3
    /\ added[3].id = <<"a">>
    /\ curScene._authors[1] = added[1]

\* The entries of the scene's branch map have pairwise different keys.
UniqueBranchKeys(s) ==
    \A i, j \in 1..Len(s._branches) :
        s._branches[i][1] = s._branches[j][1] => i = j

\* The branches the scene maps the id to.
BranchesOf(s, id) ==
    { s._branches[i][2] : i \in { n \in 1..Len(s._branches) : s._branches[n][1] = id } }

\* C14: a scene never holds two entries for one branch id, and when the
\* CLOSE_BRACE of a branch is read the scene maps the branch's id to that
\* branch, the one declared last, whether or not the id was mapped before;
\* the other ids keep their branches and nothing is thrown.
C14_LastBranchWins ==
    /\ [](/\ UniqueBranchKeys(curScene)
          /\ \A i \in 1..Len(scenes) : UniqueBranchKeys(scenes[i])
          /\ \A i \in 1..Len(result) : UniqueBranchKeys(result[i]))
    /\ [][(pc = "branch_body" /\ token'.type = "CLOSE_BRACE") =>
            /\ pc' = "scene_body" /\ error' = NoError
            /\ BranchesOf(curScene', curBranch.id) = {curBranch}
            /\ \A i \in 1..Len(curScene._branches) :
                  curScene._branches[i][1] # curBranch.id =>
                      BranchesOf(curScene', curScene._branches[i][1]) =
                          {curScene._branches[i][2]}]_vars

\* scene a { branch b } branch b } } was parsed: two branches b were
\* constructed and the scene maps b to the second.
C14_Witness ==
    /\ source = Text(<<SCENE, Sp, <<"a">>, Sp, <<OPEN>>, Sp,
                       BRANCH, Sp, <<"b">>, Sp, <<CLOSE>>, Sp,
                       BRANCH, Sp, <<"b">>, Sp, <<CLOSE>>, Sp, <<CLOSE>>, Sp>>)
    /\ pc = "done"
    /\ objs = 2
    /\ result[1]._branches = << << <<"b">>, NewObject(<<"b">>, 2) >> >>

----------------------------------------------------------------------------
(* Claims about the bodies of scenes and branches *)

\* The step is a nextToken() call made at position p that returned a token.
ReadsTokenAt(p) ==
    /\ pc = p
    /\ calls' = calls + 1
    /\ token' # Undefined

\* C15: a token read by the loop of scene() that is neither KEYWORD author,
\* KEYWORD branch nor CLOSE_BRACE is dropped: nothing is thrown, the loop
\* goes on, and the scene, its pending authors and the scenes already
\* parsed are as before.
C15_SceneIgnoresOtherTokens ==
    [][(/\ ReadsTokenAt("scene_body")
        /\ token' \notin {Token("KEYWORD", AUTHOR), Token("KEYWORD", BRANCH)}
        /\ token'.type # "CLOSE_BRACE")
       => /\ pc' = "scene_body" /\ error' = NoError
          /\ curScene' = curScene
          /\ sceneAuthors' = sceneAuthors
          /\ scenes' = scenes /\ authors' = authors /\ objs' = objs]_vars

\* The loop of scene() has read a string and goes on.
C15_Witness ==
    /\ at = "scene_body" /\ pc = "scene_body"
    /\ token = Token("STRING", <<"t">>)
    /\ curScene.id = <<"s">>

\* C16: branch() registers its branch on the scene when it reads a
\* CLOSE_BRACE and at no other step: reading the id registers nothing,
\* every other token read after the id (OPEN_BRACE, keywords, strings)
\* changes nothing, and at the end of the stream branch() returns with the
\* scene as it was.
C16_BranchRegisteredAtCloseBrace ==
    /\ [][ReadsTokenAt("branch_id") => curScene' = curScene]_vars
    /\ [][(ReadsTokenAt("branch_body") /\ token'.type = "CLOSE_BRACE") =>
             /\ pc' = "scene_body"
             /\ curBranch \in BranchesOf(curScene', curBranch.id)]_vars
    /\ [][(ReadsTokenAt("branch_body") /\ token'.type # "CLOSE_BRACE") =>
             /\ pc' = "branch_body" /\ error' = NoError
             /\ curScene' = curScene /\ curBranch' = curBranch
             /\ scenes' = scenes /\ sceneAuthors' = sceneAuthors]_vars
    /\ [][(pc = "branch_body" /\ calls' = calls + 1 /\ token' = Undefined) =>
             curScene' = curScene]_vars
    /\ [](EndOfStreamAt({"branch_body"}) =>
             \A i \in 1..Len(curScene._branches) : curScene._branches[i][2].obj < objs)

\* Inside `branch b { jump "t" scene }` the keyword scene has been read
\* and the scene has no branch yet.
C16_Witness ==
    /\ at = "branch_body" /\ pc = "branch_body"
    /\ token = Token("KEYWORD", SCENE)
    /\ curBranch.id = <<"b">>
    /\ curScene._branches = <<>>

----------------------------------------------------------------------------
(* Claims about the text of tokens *)

\* The 1-based index of the closing quote of the string literal whose body
\* starts at index i: the first quote that is not the second character of
\* a backslash pair; 0 when there is none.
RECURSIVE ClosingQuote(_, _)
ClosingQuote(src, i) ==
    IF i > Len(src) THEN 0
    ELSE IF src[i] = QUOTE THEN i
    ELSE IF src[i] = BACKSLASH THEN ClosingQuote(src, i + 2)
    ELSE ClosingQuote(src, i + 1)

\* The whitespace characters C17 leaves in the value of the string literal
\* whose body starts at index i: an escaped character stays, an unescaped
\* carriage return goes, and after an unescaped newline or space the
\* spaces and tabs that follow it directly go (skipping).
RECURSIVE KeptWhitespace(_, _, _)
KeptWhitespace(src, i, skipping) ==
    IF i > Len(src) \/ src[i] = QUOTE THEN <<>>
    ELSE IF src[i] = BACKSLASH THEN
         IF i = Len(src) THEN <<>>
         ELSE (IF isWhitespace(src[i + 1]) THEN <<src[i + 1]>> ELSE <<>>)
                  \o KeptWhitespace(src, i + 2, FALSE)
    ELSE IF src[i] = CR THEN KeptWhitespace(src, i + 1, FALSE)
    ELSE IF skipping /\ src[i] \in {SPACE, TAB} THEN KeptWhitespace(src, i + 1, TRUE)
    ELSE IF src[i] \in {SPACE, LF} THEN <<src[i]>> \o KeptWhitespace(src, i + 1, TRUE)
    ELSE IF src[i] = TAB THEN <<TAB>> \o KeptWhitespace(src, i + 1, FALSE)
    ELSE KeptWhitespace(src, i + 1, FALSE)

WhitespaceOf(s) == SelectSeq(s, isWhitespace)

\* C17: when nextToken() returns the STRING token of a literal (the cursor
\* is left after the literal's closing quote), the whitespace in its value
\* is that of the literal without its unescaped carriage returns and
\* without the spaces and tabs directly after an unescaped newline or
\* space, at every place of the literal.
C17_StringWhitespaceNormalized ==
    [][(/\ AtStringLiteral
        /\ lexState' = "run"
        /\ pos' = ClosingQuote(source, pos + 2))
       => WhitespaceOf(tokens'[Len(tokens')].value) =
              KeptWhitespace(source, pos + 2, FALSE)]_vars

\* The cursor after the maximal run of non-whitespace characters that
\* starts at cursor p.
RunEnd(src, p) ==
    CHOOSE e \in p..Len(src) :
        /\ \A i \in (p + 1)..e : ~isWhitespace(src[i])
        /\ e = Len(src) \/ isWhitespace(src[e + 1])

\* A word is about to be read: the character at the cursor is none of
\* `#`, `"`, `{`, `}` and whitespace.
AtWord ==
    /\ lexState = "run" /\ ~IsEOF(source, pos)
    /\ source[pos + 1] \notin {HASH, QUOTE, OPEN, CLOSE}
    /\ ~isWhitespace(source[pos + 1])

\* C18: at a word nextToken() consumes the maximal run of non-whitespace
\* characters, braces, quotes and `#` in it included, and returns it as
\* KEYWORD when it is one of author, scene, branch, jump and as IDENTIFIER
\* otherwise; the value is not empty and holds no whitespace.
C18_MaximalRunKeywordOrIdentifier ==
    [][AtWord =>
         LET run == SubSeq(source, pos + 1, RunEnd(source, pos))
         IN  /\ lexState' = "run"
             /\ pos' = RunEnd(source, pos)
             /\ tokens' = Append(tokens,
                    Token(IF run \in {AUTHOR, SCENE, BRANCH, JUMP}
                          THEN "KEYWORD" ELSE "IDENTIFIER", run))
             /\ tokens'[Len(tokens')].value # <<>>
             /\ \A i \in 1..Len(tokens'[Len(tokens')].value) :
                    ~isWhitespace(tokens'[Len(tokens')].value[i])]_vars

\* `jump{` was read as one IDENTIFIER, not as KEYWORD jump and a brace.
C18_Witness ==
    \E i \in 1..Len(tokens) :
        /\ tokens[i] = Token("IDENTIFIER", JUMP \o <<OPEN>>)
        /\ lexState = "eof"

----------------------------------------------------------------------------
(* Termination *)

\* C19: every nextToken() call made before the end of the input that does
\* not throw leaves the cursor further on, and parse() ends: it returns a
\* scene list or throws.
C19_ParseTerminates ==
    /\ [][(calls' = calls + 1 /\ ~IsEOF(source, pos) /\ error'.origin # "Lexer")
            => pos' > pos]_vars
    /\ <>Final

\* parse() returned after 20 nextToken() calls, the last at the end of the
\* input.
C19_Witness ==
    /\ source = NoisyDocument
    /\ pc = "done"
    /\ calls = 20
    /\ pos = Len(source)

====
